---- MODULE Spec2Model ----
(***************************************************************************)
(* Model of the HubSpot form component (src/components/hubspot-form.tsx):  *)
(* the schema translator convertHubspotFormToConfig, the validation        *)
(* schema builder generateZodSchema, and the HubspotForm controller with   *)
(* its two asynchronous operations, fetchForm and onSubmit.                *)
(*                                                                         *)
(* Library behaviour the model relies on.                                  *)
(*  - zod: .min exists on ZodString and ZodArray, .email on ZodString      *)
(*    only; .optional() yields a ZodOptional and .transform()/.refine() a  *)
(*    ZodEffects, neither of which has .min or .email; a refinement runs   *)
(*    on the inner schema's output, undefined included.                    *)
(*  - react-hook-form: handleSubmit calls onSubmit with the resolver's     *)
(*    output and only when the resolver reports no error; reset(v) makes v *)
(*    the values and the default values, reset() goes back to the default  *)
(*    values, both clear isDirty and the errors.                           *)
(*  - React: the state updates fetchForm and onSubmit make after an await  *)
(*    are applied together; an exception thrown while rendering unmounts   *)
(*    the component, whose state setters then do nothing.                  *)
(* Each step of the model is one such run-to-completion piece of code.     *)
(*                                                                         *)
(* Representation.  A JavaScript string that the code inspects character   *)
(* by character (field names, field values) is a tuple of one-character    *)
(* strings.  A message that is only stored and displayed is a TLA+ string. *)
(* A nullable value is a tuple of length 0 (null / undefined) or 1.        *)
(* A form value is tagged: <<"str", s>>, <<"arr", a>>, <<"num", n>>,       *)
(* <<"undef">>.                                                            *)
(***************************************************************************)
EXTENDS Integers, Sequences, FiniteSets

(***************************************************************************)
(* Strings                                                                 *)
(***************************************************************************)
UpperChars == <<"A","B","C","D","E","F","G","H","I","J","K","L","M",
                "N","O","P","Q","R","S","T","U","V","W","X","Y","Z">>

LowerChars == <<"a","b","c","d","e","f","g","h","i","j","k","l","m",
                "n","o","p","q","r","s","t","u","v","w","x","y","z">>

DigitChars == <<"0","1","2","3","4","5","6","7","8","9">>

Range(f) == {f[i] : i \in DOMAIN f}

ToLowerChar(c) ==
  IF \E i \in DOMAIN UpperChars : UpperChars[i] = c
  THEN LowerChars[CHOOSE i \in DOMAIN UpperChars : UpperChars[i] = c]
  ELSE c

\* String.prototype.toLowerCase
ToLowerCase(s) == [i \in DOMAIN s |-> ToLowerChar(s[i])]

\* String.prototype.includes
Includes(s, sub) ==
  \E i \in 0..(Len(s) - Len(sub)) :
     \A j \in 1..Len(sub) : s[i + j] = sub[j]

IsLetter(c) == c \in Range(UpperChars) \cup Range(LowerChars)

IsDigit(c) == c \in Range(DigitChars)

DigitValue(c) == (CHOOSE i \in DOMAIN DigitChars : DigitChars[i] = c) - 1

\* the well-known strings the code compares with
EmailWord == <<"e","m","a","i","l">>

WebsiteName == <<"w","e","b","s","i","t","e">>

(***************************************************************************)
(* Form values                                                             *)
(***************************************************************************)
Undefined == <<"undef">>

NaN == <<"nan">>

Str(s) == <<"str", s>>

Arr(a) == <<"arr", a>>

Num(n) == <<"num", n>>

IsStr(v) == v[1] = "str"

IsArr(v) == v[1] = "arr"

IsNum(v) == v[1] = "num"

None == <<>>

Some(x) == <<x>>

RECURSIVE DecimalValue(_)
DecimalValue(s) ==
  IF s = <<>> THEN 0
  ELSE 10 * DecimalValue(SubSeq(s, 1, Len(s) - 1)) + DigitValue(s[Len(s)])

RECURSIVE JoinComma(_)
\* Array.prototype.toString: the elements joined by ","
JoinComma(a) ==
  IF a = <<>> THEN <<>>
  ELSE IF Len(a) = 1 THEN a[1]
  ELSE a[1] \o <<",">> \o JoinComma(Tail(a))

\* Number(val): a numeric value or NaN.  Strings of decimal digits and the
\* empty string (which converts to 0) are the numeric strings of the model.
NumberOf(v) ==
  IF IsNum(v) THEN v
  ELSE IF IsStr(v)
       THEN IF \A i \in DOMAIN v[2] : IsDigit(v[2][i])
            THEN Num(DecimalValue(v[2]))
            ELSE NaN
  ELSE NaN

\* zod's string().email() check: one "@", a non-empty local part, and a
\* domain with a "." strictly inside it.
IsEmail(s) ==
  \E i \in DOMAIN s :
     /\ s[i] = "@"
     /\ \A j \in DOMAIN s : s[j] = "@" => j = i
     /\ i > 1
     /\ \E k \in (i + 2)..(Len(s) - 1) : s[k] = "."

\* new URL(val) succeeds: val starts with a scheme (a letter, then letters
\* or digits) followed by ":".
IsURL(s) ==
  \E i \in DOMAIN s :
     /\ i > 1
     /\ s[i] = ":"
     /\ IsLetter(s[1])
     /\ \A j \in 1..(i - 1) : IsLetter(s[j]) \/ IsDigit(s[j])

\* JavaScript falsiness of a form value: undefined, "", 0
Falsy(v) ==
  \/ v = Undefined
  \/ IsStr(v) /\ v[2] = <<>>
  \/ IsNum(v) /\ v[2] = 0

(***************************************************************************)
(* Schema translator                                                       *)
(***************************************************************************)
\* faulty variant of ConvertType: the name test without toLowerCase()
ConvertTypeCaseSensitive(field) ==
  CASE field.fieldType = "email" -> "email"
    [] field.fieldType = "dropdown" -> "select"
    [] field.fieldType = "multiple_checkboxes" -> "multiselect"
    [] field.fieldType = "number" -> "number"
    [] field.fieldType = "multi_line_text" -> "text"
    [] OTHER -> IF Includes(field.name, EmailWord) THEN "email" ELSE "text"

\* switch (field.fieldType) of convertHubspotFormToConfig
ConvertType(field) ==
  CASE field.fieldType = "email" -> "email"
    [] field.fieldType = "dropdown" -> "select"
    [] field.fieldType = "multiple_checkboxes" -> "multiselect"
    [] field.fieldType = "number" -> "number"
    [] field.fieldType = "multi_line_text" -> "text"
    [] OTHER -> IF Includes(ToLowerCase(field.name), EmailWord)
                THEN "email"
                ELSE "text"

\* options are carried through for dropdown and multiple_checkboxes only
ConvertOptions(field) ==
  IF field.fieldType \in {"dropdown", "multiple_checkboxes"}
  THEN field.options
  ELSE <<>>

ConvertField(field) ==
  [name |-> field.name,
   type |-> ConvertType(field),
   required |-> field.required,
   options |-> ConvertOptions(field)]

RECURSIVE ConvertGroups(_)
\* the nested forEach over fieldGroups and their fields
ConvertGroups(groups) ==
  IF groups = <<>> THEN <<>>
  ELSE [i \in DOMAIN groups[1].fields |-> ConvertField(groups[1].fields[i])]
       \o ConvertGroups(Tail(groups))

convertHubspotFormToConfig(hubspotForm) ==
  [name |-> hubspotForm.name, fields |-> ConvertGroups(hubspotForm.fieldGroups)]

(***************************************************************************)
(* Validation schema builder                                               *)
(*                                                                         *)
(* A zod schema is the sequence of the constructor and method calls that   *)
(* built it, innermost first: <<"string", "email", "min1">> is             *)
(* z.string().email().min(1).  Each call wraps or extends what precedes    *)
(* it.  A call of a method the receiver's class does not have is a         *)
(* TypeError: the build result is None.                                    *)
(***************************************************************************)
RECURSIVE SchemaClass(_)
\* the zod class of the object a chain of calls evaluates to
SchemaClass(schema) ==
  LET last == schema[Len(schema)] IN
  CASE last = "string" -> "ZodString"
    [] last = "array" -> "ZodArray"
    [] last \in {"email", "min1"} -> SchemaClass(SubSeq(schema, 1, Len(schema) - 1))
    [] last = "optional" -> "ZodOptional"
    [] OTHER -> "ZodEffects"

\* switch (field.type): the base schema
BaseSchema(field) ==
  CASE field.type = "multiselect" -> <<"array">>
    [] field.type = "email" -> <<"string", "email">>
    [] field.type = "number" -> <<"string", "transform">>
    [] field.type = "multi_line_text" -> <<"string", "min1">>
    [] OTHER -> <<"string">>

\* .min(1, ...) exists on ZodString and on ZodArray only
CallMin(schema) ==
  IF SchemaClass(schema) \in {"ZodString", "ZodArray"}
  THEN Some(schema \o <<"min1">>)
  ELSE None

\* .email(...) exists on ZodString only
CallEmail(schema) ==
  IF SchemaClass(schema) = "ZodString"
  THEN Some(schema \o <<"email">>)
  ELSE None

\* faulty variant of RequiredStep: required is not enforced for multiselect
RequiredStepSkipsArrays(field, schema) ==
  IF field.required /\ field.type # "multiselect"
  THEN CallMin(schema)
  ELSE Some(schema \o <<"optional">>)

\* if (field.required) .min(1) else .optional()
RequiredStep(field, schema) ==
  IF field.required THEN CallMin(schema) ELSE Some(schema \o <<"optional">>)

\* if (field.type === "email") .email()
EmailStep(field, built) ==
  IF built # None /\ field.type = "email" THEN CallEmail(built[1]) ELSE built

\* if (field.type === "number") .refine(!isNaN(Number(val)))
NumberStep(field, built) ==
  IF built # None /\ field.type = "number"
  THEN Some(built[1] \o <<"refineNumber">>)
  ELSE built

\* if (field.name === "website") .refine(URL check)
WebsiteStep(field, built) ==
  IF built # None /\ field.name = WebsiteName
  THEN Some(built[1] \o <<"refineWebsite">>)
  ELSE built

\* the body of config.fields.forEach in generateZodSchema: Some(schema), or
\* None when the body throws
FieldSchema(field) ==
  WebsiteStep(field,
    NumberStep(field,
      EmailStep(field,
        RequiredStep(field, BaseSchema(field)))))

Invalid == <<"invalid">>

Ok(v) == <<"ok", v>>

IsOk(r) == r[1] = "ok"

\* the website refinement: !val, or new URL(val) does not throw
WebsiteOk(v) ==
  \/ Falsy(v)
  \/ IsStr(v) /\ IsURL(v[2])
  \/ IsArr(v) /\ IsURL(JoinComma(v[2]))

\* the transform of a number field: isNaN(num) ? val : num
NumberTransform(v) == IF NumberOf(v) = NaN THEN v ELSE NumberOf(v)

RECURSIVE ParseSchema(_, _)
\* schema.safeParse(v): Invalid, or Ok(output)
ParseSchema(schema, v) ==
  LET last == schema[Len(schema)]
      r == ParseSchema(SubSeq(schema, 1, Len(schema) - 1), v)
  IN
  CASE last = "string" -> IF IsStr(v) THEN Ok(v) ELSE Invalid
    [] last = "array" -> IF IsArr(v) THEN Ok(v) ELSE Invalid
    [] last = "email" -> IF IsOk(r) /\ IsEmail(r[2][2]) THEN r ELSE Invalid
    [] last = "min1" -> IF IsOk(r) /\ Len(r[2][2]) >= 1 THEN r ELSE Invalid
    [] last = "transform" -> IF IsOk(r) THEN Ok(NumberTransform(r[2])) ELSE Invalid
    [] last = "optional" -> IF v = Undefined THEN Ok(Undefined) ELSE r
    [] last = "refineNumber" -> IF IsOk(r) /\ NumberOf(r[2]) # NaN THEN r ELSE Invalid
    [] last = "refineWebsite" -> IF IsOk(r) /\ WebsiteOk(r[2]) THEN r ELSE Invalid

FieldNames(config) == {config.fields[i].name : i \in DOMAIN config.fields}

\* the field that decides schema[name]: the last one of that name
LastFieldNamed(config, name) ==
  config.fields[CHOOSE i \in DOMAIN config.fields :
                   /\ config.fields[i].name = name
                   /\ \A j \in DOMAIN config.fields :
                         config.fields[j].name = name => j <= i]

\* generateZodSchema throws when the body throws for some field
SchemaThrows(config) ==
  \E i \in DOMAIN config.fields : FieldSchema(config.fields[i]) = None

\* generateZodSchema: the shape of z.object(schema)
generateZodSchema(config) ==
  [n \in FieldNames(config) |-> FieldSchema(LastFieldNamed(config, n))[1]]

\* values[name], undefined for a missing key
ValueAt(values, name) ==
  IF name \in DOMAIN values THEN values[name] ELSE Undefined

\* the resolver's verdict per field: the names whose value the schema rejects
FieldErrors(config, values) ==
  LET shape == generateZodSchema(config) IN
  {n \in DOMAIN shape : ~IsOk(ParseSchema(shape[n], ValueAt(values, n)))}

\* the resolver's output values: the parsed (transformed) value per field;
\* a value that does not parse is left as it is
ParsedValues(config, values) ==
  LET shape == generateZodSchema(config) IN
  [n \in DOMAIN shape |->
     LET r == ParseSchema(shape[n], ValueAt(values, n)) IN
     IF IsOk(r) THEN r[2] ELSE ValueAt(values, n)]

(***************************************************************************)
(* Submission relay: the payload built by onSubmit                         *)
(***************************************************************************)
\* Array.isArray(value) ? value : [value]; the elements of an array of
\* strings are kept untagged
ArrayValue(value) ==
  IF IsArr(value) THEN value
  ELSE IF IsStr(value) THEN Arr(<<value[2]>>)
  ELSE Arr(<<value>>)

\* the value stored in hubspotFields[field.name]
PayloadValue(field, value) ==
  IF field.type = "multiselect" THEN ArrayValue(value) ELSE value

\* faulty variant of PayloadType: the internal type tag for every field
PayloadTypeVerbatim(field) == field.type

\* the tag stored in fieldTypes[field.name]
PayloadType(field) ==
  IF field.type = "multiselect" THEN "multiple_checkboxes" ELSE field.type

\* obj[key] = val on a record kept as a function
Assign(obj, key, val) ==
  [k \in DOMAIN obj \cup {key} |-> IF k = key THEN val ELSE obj[k]]

EmptyObject == <<>>

RECURSIVE PayloadFrom(_, _, _, _)
\* formConfig.fields.forEach of onSubmit, from field i on, accumulating
\* hubspotFields and fieldTypes
PayloadFrom(fields, values, i, acc) ==
  IF i > Len(fields) THEN acc
  ELSE LET field == fields[i]
           value == ValueAt(values, field.name)
       IN PayloadFrom(fields, values, i + 1,
            IF value # Undefined
            THEN [fields |-> Assign(acc.fields, field.name, PayloadValue(field, value)),
                  fieldTypes |-> Assign(acc.fieldTypes, field.name, PayloadType(field))]
            ELSE acc)

BuildPayload(config, values) ==
  PayloadFrom(config.fields, values, 1,
              [fields |-> EmptyObject, fieldTypes |-> EmptyObject])

(***************************************************************************)
(* State                                                                   *)
(***************************************************************************)
VARIABLES
  formId,             \* the formId prop
  formConfig,         \* useState<FormConfig | null>: None or Some(config)
  error,              \* useState<string | null>: None or Some(message)
  loading,            \* useState(true)
  submitError,        \* useState<string | null>
  submitSuccess,      \* useState(false)
  isSubmitting,       \* useState(false)
  values,             \* the form's current values (form.getValues())
  defaultValues,      \* the values form.reset() goes back to
  isDirty,            \* form.formState.isDirty
  errors,             \* the field names the resolver rejected at the last submit
  crashed,            \* rendering threw: generateZodSchema raised a TypeError
  inflight,           \* the getHubspotForm calls that have not settled
  fetchCount,         \* the number of getHubspotForm calls issued
  lastFetch,          \* the most recent settlement of a getHubspotForm call
  pending,            \* the submitHubspotForm call that has not settled
  submitCount,        \* the number of submitHubspotForm calls issued
  lastSubmit,         \* the most recent settlement of a submitHubspotForm call
  log,                \* the host callbacks and collaborator calls, in order
  submissionResponse, \* the host's copy of the last onSubmissionResponse argument
  hubspotForm,        \* translator run: the argument, None before it is chosen
  translated,         \* translator run: the result
  schemaField,        \* schema builder run: the field configuration
  schemaInput,        \* schema builder run: the value validated
  schemaVerdict,      \* schema builder run: "idle", "threw", "rejected", "accepted"
  relayConfig,        \* relay run: the form configuration
  relayValues,        \* relay run: the values passed to onSubmit
  relayPayload        \* relay run: the payload built

ctlVars == <<formId, formConfig, error, loading, submitError, submitSuccess,
             isSubmitting, values, defaultValues, isDirty, errors, crashed,
             inflight, fetchCount, lastFetch, pending, submitCount, lastSubmit,
             log, submissionResponse>>

translatorVars == <<hubspotForm, translated>>

schemaVars == <<schemaField, schemaInput, schemaVerdict>>

relayVars == <<relayConfig, relayValues, relayPayload>>

vars == <<ctlVars, translatorVars, schemaVars, relayVars>>

(***************************************************************************)
(* Bounds and input pools                                                  *)
(***************************************************************************)
\* collaborator calls per mount: the getHubspotForm call of the mount, those
\* of a changed formId, and the submitHubspotForm calls
MaxCalls == 3

\* fields of a form handed to the translator run
MaxFields == 2

\* fields of a configuration handed to the relay run
MaxRelayFields == 2

NameEmail == <<"e","m","a","i","l">>

NameUpperEmail == <<"E","M","a","i","l","2">>

NameInnerEmail == <<"m","y","_","e","m","a","i","l","s">>

NameNearEmail == <<"e","m","a","l">>

NameColors == <<"c","o","l","o","r","s">>

NameAge == <<"a","g","e">>

NamePlan == <<"p","l","a","n">>

TextEmpty == <<>>

TextEmail == <<"a","@","b",".","c">>

TextDigits == <<"1","2">>

TextUrl == <<"h",":","x">>

TextWord == <<"a","b">>

\* the strings handed to a validator
Texts == {TextEmpty, TextEmail, TextDigits, TextUrl, TextWord}

\* what a user may type into a text input
TypedTexts == {TextEmpty, TextEmail}

OptionA == [label |-> "A", value |-> <<"a">>]

OptionB == [label |-> "B", value |-> <<"b">>]

ExternalField(name, fieldType, required, options) ==
  [name |-> name, fieldType |-> fieldType, required |-> required, options |-> options]

InternalTypes == {"text", "email", "select", "multiselect", "number", "multi_line_text"}

ExternalTypes == {"email", "dropdown", "multiple_checkboxes", "number",
                  "multi_line_text", "text", "phonenumber"}

(***************************************************************************)
(* Initial state of the controller: the useState initial values, the       *)
(* form's defaultValues {} and the fetch the mount effect starts           *)
(***************************************************************************)
FormIds == {"f1", "f2", "f3"}

CtlInit ==
  /\ formId = "f1"
  /\ formConfig = None
  /\ error = None
  /\ loading = TRUE
  /\ submitError = None
  /\ submitSuccess = FALSE
  /\ isSubmitting = FALSE
  /\ values = EmptyObject
  /\ defaultValues = EmptyObject
  /\ isDirty = FALSE
  /\ errors = {}
  /\ crashed = FALSE
  /\ inflight = {[n |-> 1, id |-> formId]}
  /\ fetchCount = 1
  /\ lastFetch = None
  /\ pending = None
  /\ submitCount = 0
  /\ lastSubmit = None
  /\ log = <<>>
  /\ submissionResponse = None

TranslatorIdle == hubspotForm = None /\ translated = None

SchemaIdle == schemaField = None /\ schemaInput = None /\ schemaVerdict = "idle"

RelayIdle == relayConfig = None /\ relayValues = None /\ relayPayload = None

(***************************************************************************)
(* Translator run: convertHubspotFormToConfig on every form of the pool    *)
(***************************************************************************)
TranslatorNames == {NameEmail, NameUpperEmail, NameInnerEmail, NameNearEmail, NameColors}

TranslatorFields ==
  {ExternalField(n, t, FALSE, <<OptionA, OptionB>>) :
     n \in TranslatorNames, t \in ExternalTypes}

\* the sequences of 1..n elements of S
SeqsUpTo(S, n) == UNION {[1..k -> S] : k \in 1..n}

RECURSIVE SplitAt(_, _, _)
\* the field groups that cut the sequence flat after the positions in cuts
SplitAt(flat, cuts, from) ==
  IF \E c \in cuts : c >= from
  THEN LET c == CHOOSE x \in cuts : x >= from /\ \A y \in cuts : y >= from => x <= y
       IN <<[fields |-> SubSeq(flat, from, c)]>> \o SplitAt(flat, cuts, c + 1)
  ELSE <<[fields |-> SubSeq(flat, from, Len(flat))]>>

TranslatorForms ==
  {[name |-> "Form", fieldGroups |-> SplitAt(flat, cuts, 1)] :
     <<flat, cuts>> \in {p \in SeqsUpTo(TranslatorFields, MaxFields) \X SUBSET (1..MaxFields) :
                           p[2] \subseteq 1..(Len(p[1]) - 1)}}

TranslatorInit ==
  /\ CtlInit /\ SchemaIdle /\ RelayIdle
  /\ hubspotForm \in {Some(f) : f \in TranslatorForms}
  /\ translated = None

Translate ==
  /\ translated = None
  /\ translated' = Some(convertHubspotFormToConfig(hubspotForm[1]))
  /\ UNCHANGED <<ctlVars, hubspotForm, schemaVars, relayVars>>

TranslatorNext == Translate

SpecTranslator == TranslatorInit /\ [][TranslatorNext]_vars

(***************************************************************************)
(* Schema builder run: generateZodSchema on a one-field configuration and  *)
(* the resolver's verdict on one value                                     *)
(***************************************************************************)
\* the length of the lists handed to the validator
MaxListLen == 2

SchemaFields ==
  {[name |-> n, type |-> t, required |-> r, options |-> <<OptionA, OptionB>>] :
     n \in {NameColors, WebsiteName}, t \in InternalTypes, r \in BOOLEAN}

SchemaLists == {<<>>} \cup SeqsUpTo({<<"a">>, TextUrl}, MaxListLen)

SchemaInputs ==
  {Undefined} \cup {Str(t) : t \in Texts} \cup {Arr(a) : a \in SchemaLists}

SchemaInit ==
  /\ CtlInit /\ TranslatorIdle /\ RelayIdle
  /\ schemaField \in {Some(f) : f \in SchemaFields}
  /\ schemaInput \in {Some(v) : v \in SchemaInputs}
  /\ schemaVerdict = "idle"

\* the form values that hold v under name: an absent value is a missing key
ValuesWith(name, v) ==
  IF v = Undefined THEN EmptyObject ELSE Assign(EmptyObject, name, v)

\* zodResolver(generateZodSchema(config)) applied to the values
ResolverVerdict(config, vals) ==
  IF SchemaThrows(config) THEN "threw"
  ELSE IF FieldErrors(config, vals) = {} THEN "accepted"
  ELSE "rejected"

BuildAndValidate ==
  /\ schemaVerdict = "idle"
  /\ schemaVerdict' =
       ResolverVerdict([name |-> "Form", fields |-> <<schemaField[1]>>],
                       ValuesWith(schemaField[1].name, schemaInput[1]))
  /\ UNCHANGED <<ctlVars, translatorVars, schemaField, schemaInput, relayVars>>

SchemaNext == BuildAndValidate

SpecSchema == SchemaInit /\ [][SchemaNext]_vars

(***************************************************************************)
(* Relay run: the payload onSubmit builds from a configuration and values  *)
(***************************************************************************)
RelayFields ==
  {[name |-> n, type |-> t, required |-> FALSE, options |-> <<OptionA, OptionB>>] :
     n \in {NameColors, NameAge, NameEmail}, t \in InternalTypes}

RelayValuePool ==
  {Undefined, Str(TextEmpty), Str(TextWord), Arr(<<>>), Arr(<<<<"a">>>>), Num(12)}

\* field names are unique within a form
UniqueNames(fields) ==
  \A i, j \in DOMAIN fields : fields[i].name = fields[j].name => i = j

RelayConfigs ==
  {[name |-> "Form", fields |-> fs] :
     fs \in {x \in SeqsUpTo(RelayFields, MaxRelayFields) : UniqueNames(x)}}

RelayInit ==
  /\ CtlInit /\ TranslatorIdle /\ SchemaIdle
  /\ relayConfig \in {Some(c) : c \in RelayConfigs}
  /\ relayValues \in {Some(v) : v \in [FieldNames(relayConfig[1]) -> RelayValuePool]}
  /\ relayPayload = None

Relay ==
  /\ relayPayload = None
  /\ relayPayload' = Some(BuildPayload(relayConfig[1], relayValues[1]))
  /\ UNCHANGED <<ctlVars, translatorVars, schemaVars, relayConfig, relayValues>>

RelayNext == Relay

SpecRelay == RelayInit /\ [][RelayNext]_vars

(***************************************************************************)
(* The collaborators getHubspotForm and submitHubspotForm: what a call may *)
(* settle with.  A returned result is {success, data?, error?}; a thrown   *)
(* value is an Error carrying a message (possibly the empty message of     *)
(* new Error()) or a value that is not an Error.                           *)
(***************************************************************************)
\* the form definitions the forms API holds, by form identifier
FormOf(id) ==
  CASE id = "f1" ->
         [name |-> "Contact",
          fieldGroups |->
            <<[fields |-> <<ExternalField(NameEmail, "email", TRUE, <<>>)>>],
              [fields |-> <<ExternalField(NamePlan, "dropdown", TRUE,
                                          <<OptionA, OptionB>>)>>]>>]
    [] id = "f2" ->
         [name |-> "Signup",
          fieldGroups |->
            <<[fields |-> <<ExternalField(WebsiteName, "text", FALSE, <<>>),
                            ExternalField(NameColors, "multiple_checkboxes", FALSE,
                                          <<OptionA, OptionB>>)>>]>>]
    [] id = "f3" ->
         [name |-> "Newsletter",
          fieldGroups |->
            <<[fields |-> <<ExternalField(NameUpperEmail, "text", FALSE, <<>>)>>]>>]

Outcome(kind, success, data, err, isError) ==
  [kind |-> kind, success |-> success, data |-> data, error |-> err, isError |-> isError]

Returned(success, data, err) == Outcome("return", success, data, err, FALSE)

\* throw new Error(message)
ThrownError(message) == Outcome("throw", FALSE, None, Some(message), TRUE)

\* throw of a value that is not an Error instance
ThrownOther == Outcome("throw", FALSE, None, None, FALSE)

FetchOutcomes(id) ==
  {Returned(TRUE, Some(FormOf(id)), None),
   Returned(TRUE, None, None),
   Returned(FALSE, None, Some("not found")),
   Returned(FALSE, None, None),
   ThrownError("network down"),
   ThrownError(""),
   ThrownOther}

SubmitOutcomes ==
  {Returned(TRUE, None, None),
   Returned(FALSE, None, Some("rejected")),
   Returned(FALSE, None, None),
   ThrownError("network down"),
   ThrownError(""),
   ThrownOther}

\* a || b on an optional message: b when a is undefined or ""
OrElse(a, b) == IF a = None \/ a[1] = "" THEN b ELSE a[1]

\* err instanceof Error ? err.message : fallback
MessageOfThrown(outcome, fallback) ==
  IF outcome.isError THEN outcome.error[1] ELSE fallback

\* a nullable message in a condition: if (error), {submitError && ...}
Truthy(message) == message # None /\ message[1] # ""

(***************************************************************************)
(* The controller                                                          *)
(***************************************************************************)
\* faulty variant of DefaultValuesOf: "" for every field
DefaultValuesAllStrings(config) == [n \in FieldNames(config) |-> Str(<<>>)]

\* config.fields.reduce(...): [] for a multiselect field, "" for any other
DefaultValuesOf(config) ==
  [n \in FieldNames(config) |->
     IF LastFieldNamed(config, n).type = "multiselect" THEN Arr(<<>>) ELSE Str(<<>>)]

\* what the component renders
View ==
  IF crashed THEN "crashed"
  ELSE IF loading THEN "loading"
  ELSE IF Truthy(error) THEN "error"
  ELSE IF formConfig = None THEN "empty"
  ELSE "form"

\* the effect on [formConfig, form]: with a dirty form, reset to the current
\* values, which makes them the values a later reset() goes back to
DefaultsAfterConfigEffect(dirty, vals, defaults) ==
  IF dirty THEN vals ELSE defaults

\* the host changes the formId prop: the fetch effect runs again
ChangeFormId(id) ==
  /\ ~crashed
  /\ fetchCount + submitCount < MaxCalls
  /\ id # formId
  /\ formId' = id
  /\ fetchCount' = fetchCount + 1
  /\ inflight' = inflight \cup {[n |-> fetchCount + 1, id |-> id]}
  /\ UNCHANGED <<formConfig, error, loading, submitError, submitSuccess, isSubmitting,
                 values, defaultValues, isDirty, errors, crashed, lastFetch, pending,
                 submitCount, lastSubmit, log, submissionResponse>>
  /\ UNCHANGED <<translatorVars, schemaVars, relayVars>>

\* fetchForm after the await, result.success && result.data
FetchSucceeded(f, outcome) ==
  /\ outcome.kind = "return" /\ outcome.success /\ outcome.data # None
  /\ LET config == convertHubspotFormToConfig(outcome.data[1])
         defaults == DefaultValuesOf(config)
     IN /\ formConfig' = Some(config)
        \* form.reset(defaultValues)
        /\ values' = defaults
        /\ isDirty' = FALSE
        /\ errors' = {}
        \* the render that follows builds the resolver
        /\ crashed' = SchemaThrows(config)
        \* the effect on [formConfig, form] runs after that render
        /\ defaultValues' = DefaultsAfterConfigEffect(isDirty', values', defaults)
  /\ loading' = FALSE
  /\ UNCHANGED error

\* fetchForm after the await, the else branch and the catch block
FetchFailed(f, outcome) ==
  /\ ~(outcome.kind = "return" /\ outcome.success /\ outcome.data # None)
  /\ error' = Some(IF outcome.kind = "return"
                   THEN OrElse(outcome.error, "Failed to fetch form")
                   ELSE MessageOfThrown(outcome, "Failed to fetch form"))
  /\ loading' = FALSE
  /\ UNCHANGED <<formConfig, values, defaultValues, isDirty, errors, crashed>>

\* a getHubspotForm call settles; an unmounted component keeps no state
FetchSettle(f, outcome) ==
  /\ f \in inflight
  /\ outcome \in FetchOutcomes(f.id)
  /\ inflight' = inflight \ {f}
  /\ lastFetch' = Some([n |-> f.n, id |-> f.id, outcome |-> outcome, mounted |-> ~crashed])
  /\ IF crashed
     THEN UNCHANGED <<formConfig, values, defaultValues, isDirty, errors, crashed,
                      error, loading>>
     ELSE FetchSucceeded(f, outcome) \/ FetchFailed(f, outcome)
  /\ UNCHANGED <<formId, fetchCount, submitError, submitSuccess, isSubmitting, pending,
                 submitCount, lastSubmit, log, submissionResponse>>
  /\ UNCHANGED <<translatorVars, schemaVars, relayVars>>

\* a text input registered with form.register: the user types t
EditText(i, t) ==
  /\ View = "form"
  /\ i \in DOMAIN formConfig[1].fields
  /\ formConfig[1].fields[i].type \notin {"multiselect", "select"}
  /\ t \in TypedTexts
  /\ values' = Assign(values, formConfig[1].fields[i].name, Str(t))
  /\ isDirty' = (values' # defaultValues)
  /\ UNCHANGED <<formId, formConfig, error, loading, submitError, submitSuccess,
                 isSubmitting, defaultValues, errors, crashed, inflight, fetchCount,
                 lastFetch, pending, submitCount, lastSubmit, log, submissionResponse>>
  /\ UNCHANGED <<translatorVars, schemaVars, relayVars>>

\* (form.getValues(field.name) as string[]) || []
CurrentValues(vals, name) ==
  IF Falsy(ValueAt(vals, name)) THEN <<>> ELSE ValueAt(vals, name)[2]

\* checked ? [...currentValues, option.value] : currentValues.filter(v => v !== option.value)
ToggledValues(current, checked, v) ==
  IF checked THEN Append(current, v) ELSE SelectSeq(current, LAMBDA x : x # v)

\* the checkbox of option o of a multiselect field is clicked: it is rendered
\* checked exactly when the current values include the option
ToggleOption(i, o) ==
  /\ View = "form"
  /\ i \in DOMAIN formConfig[1].fields
  /\ formConfig[1].fields[i].type = "multiselect"
  /\ o \in DOMAIN formConfig[1].fields[i].options
  /\ LET name == formConfig[1].fields[i].name
         v == formConfig[1].fields[i].options[o].value
         current == CurrentValues(values, name)
         checked == v \notin Range(current)
     IN values' = Assign(values, name, Arr(ToggledValues(current, checked, v)))
  /\ isDirty' = (values' # defaultValues)
  /\ UNCHANGED <<formId, formConfig, error, loading, submitError, submitSuccess,
                 isSubmitting, defaultValues, errors, crashed, inflight, fetchCount,
                 lastFetch, pending, submitCount, lastSubmit, log, submissionResponse>>
  /\ UNCHANGED <<translatorVars, schemaVars, relayVars>>

\* an item of a Select is chosen: form.setValue(field.name, value)
SelectOption(i, o) ==
  /\ View = "form"
  /\ i \in DOMAIN formConfig[1].fields
  /\ formConfig[1].fields[i].type = "select"
  /\ o \in DOMAIN formConfig[1].fields[i].options
  /\ values' = Assign(values, formConfig[1].fields[i].name,
                      Str(formConfig[1].fields[i].options[o].value))
  /\ UNCHANGED <<formId, formConfig, error, loading, submitError, submitSuccess,
                 isSubmitting, defaultValues, isDirty, errors, crashed, inflight,
                 fetchCount, lastFetch, pending, submitCount, lastSubmit, log, submissionResponse>>
  /\ UNCHANGED <<translatorVars, schemaVars, relayVars>>

\* faulty variant of HandleSubmitPasses: onSubmit is called whatever the resolver says
HandleSubmitUnchecked(config, vals) == TRUE

\* form.handleSubmit(onSubmit): onSubmit runs only when the resolver reports
\* no error
HandleSubmitPasses(config, vals) == FieldErrors(config, vals) = {}

\* the submit button is rendered and not disabled
SubmitEnabled == View = "form" /\ ~isSubmitting

\* the form is submitted with values the resolver rejects
SubmitInvalid ==
  /\ SubmitEnabled
  /\ ~HandleSubmitPasses(formConfig[1], values)
  /\ errors' = FieldErrors(formConfig[1], values)
  /\ UNCHANGED <<formId, formConfig, error, loading, submitError, submitSuccess,
                 isSubmitting, values, defaultValues, isDirty, crashed, inflight,
                 fetchCount, lastFetch, pending, submitCount, lastSubmit, log, submissionResponse>>
  /\ UNCHANGED <<translatorVars, schemaVars, relayVars>>

\* faulty variant of StartEvents: the collaborator is called before the host is told
StartEventsCallFirst(n) == <<<<"submitHubspotForm", n>>, <<"onSubmissionData", n>>>>

\* onSubmit up to its await: onSubmissionData, then submitHubspotForm
StartEvents(n) == <<<<"onSubmissionData", n>>, <<"submitHubspotForm", n>>>>

\* onSubmit(values) up to its await, values being the resolver's output
SubmitValid ==
  /\ SubmitEnabled
  /\ fetchCount + submitCount < MaxCalls
  /\ HandleSubmitPasses(formConfig[1], values)
  /\ errors' = FieldErrors(formConfig[1], values)
  /\ isSubmitting' = TRUE
  /\ submitError' = None
  /\ submitSuccess' = FALSE
  /\ LET payload == BuildPayload(formConfig[1], ParsedValues(formConfig[1], values))
         n == submitCount + 1
     IN /\ pending' = Some([n |-> n, formId |-> formId, fields |-> payload.fields,
                            fieldTypes |-> payload.fieldTypes])
        /\ log' = log \o StartEvents(n)
        /\ submitCount' = n
  /\ UNCHANGED <<formId, formConfig, error, loading, values, defaultValues, isDirty,
                 crashed, inflight, fetchCount, lastFetch, lastSubmit,
                 submissionResponse>>
  /\ UNCHANGED <<translatorVars, schemaVars, relayVars>>

Response(success, err) == [success |-> success, error |-> err]

\* the argument of onSubmissionResponse: the result itself, or
\* {success: false, error: errorMessage} in the catch block
ResponseOf(outcome) ==
  IF outcome.kind = "return"
  THEN Response(outcome.success, outcome.error)
  ELSE Response(FALSE, Some(MessageOfThrown(outcome, "Failed to submit form")))

\* faulty variant of SettleEvents: the catch block does not notify the host
SettleEventsSilentCatch(n, outcome) ==
  IF outcome.kind = "return"
  THEN <<<<"settled", n>>, <<"onSubmissionResponse", n>>>>
  ELSE <<<<"settled", n>>>>

\* the call settles and onSubmit resumes: onSubmissionResponse in the try
\* block or in the catch block
SettleEvents(n, outcome) == <<<<"settled", n>>, <<"onSubmissionResponse", n>>>>

\* faulty variant of ValuesAfterReset: reset() keeps the edited values
ValuesAfterResetKept(vals, defaults) == vals

\* form.reset() without argument: back to the default values
ValuesAfterReset(vals, defaults) == defaults

\* onSubmit after the await: result.success
SubmitSucceeded(outcome) ==
  /\ outcome.kind = "return" /\ outcome.success
  /\ submitSuccess' = TRUE
  /\ values' = ValuesAfterReset(values, defaultValues)
  /\ isDirty' = FALSE
  /\ errors' = {}
  /\ isSubmitting' = FALSE
  /\ UNCHANGED <<submitError, defaultValues>>

\* onSubmit after the await: the else branch and the catch block
SubmitFailed(outcome) ==
  /\ ~(outcome.kind = "return" /\ outcome.success)
  /\ submitError' = Some(IF outcome.kind = "return"
                         THEN OrElse(outcome.error, "Failed to submit form")
                         ELSE MessageOfThrown(outcome, "Failed to submit form"))
  /\ isSubmitting' = FALSE
  /\ UNCHANGED <<submitSuccess, values, defaultValues, isDirty, errors>>

\* the submitHubspotForm call settles; the host callback is called even when
\* the component is gone, its state setters then do nothing
SubmitSettle(outcome) ==
  /\ pending # None
  /\ outcome \in SubmitOutcomes
  /\ pending' = None
  /\ log' = log \o SettleEvents(pending[1].n, outcome)
  /\ submissionResponse' = Some(ResponseOf(outcome))
  /\ lastSubmit' = Some([n |-> pending[1].n, outcome |-> outcome, mounted |-> ~crashed])
  /\ IF crashed
     THEN UNCHANGED <<submitSuccess, submitError, values, defaultValues, isDirty,
                      errors, isSubmitting>>
     ELSE SubmitSucceeded(outcome) \/ SubmitFailed(outcome)
  /\ UNCHANGED <<formId, formConfig, error, loading, crashed, inflight, fetchCount,
                 lastFetch, submitCount>>
  /\ UNCHANGED <<translatorVars, schemaVars, relayVars>>

Init == CtlInit /\ TranslatorIdle /\ SchemaIdle /\ RelayIdle

Next ==
  \/ \E id \in FormIds : ChangeFormId(id)
  \/ \E f \in inflight : \E outcome \in FetchOutcomes(f.id) : FetchSettle(f, outcome)
  \/ \E i \in 1..2 : \E t \in TypedTexts : EditText(i, t)
  \/ \E i \in 1..2 : \E o \in 1..2 : ToggleOption(i, o)
  \/ \E i \in 1..2 : \E o \in 1..2 : SelectOption(i, o)
  \/ SubmitInvalid
  \/ SubmitValid
  \/ \E outcome \in SubmitOutcomes : SubmitSettle(outcome)

Spec == Init /\ [][Next]_vars

(***************************************************************************)
(* Properties                                                              *)
(***************************************************************************)
RecognisedTypes == {"email", "dropdown", "multiple_checkboxes", "number", "multi_line_text"}

TypeOfRecognised(t) ==
  CASE t = "email" -> "email"
    [] t = "dropdown" -> "select"
    [] t = "multiple_checkboxes" -> "multiselect"
    [] t = "number" -> "number"
    [] t = "multi_line_text" -> "text"

\* the names of the pool whose lower-cased form contains "email"
NamesContainingEmail == {NameEmail, NameUpperEmail, NameInnerEmail}

RECURSIVE FieldsBefore(_, _)
\* the number of fields in the groups before group g
FieldsBefore(groups, g) ==
  IF g = 1 THEN 0 ELSE FieldsBefore(groups, g - 1) + Len(groups[g - 1].fields)

\* C1: every external field gets its internal type from its fieldType alone
\* when that is one of the five recognised tags, whatever its name; any other
\* fieldType gives email when the lower-cased name contains "email" and text
\* otherwise; the translation always yields a configuration, one field per
\* external field in traversal order.
C1_TypeByFieldTypeThenName ==
  translated # None =>
    LET groups == hubspotForm[1].fieldGroups
        out == translated[1].fields
    IN /\ Len(out) = FieldsBefore(groups, Len(groups) + 1)
       /\ \A g \in DOMAIN groups : \A k \in DOMAIN groups[g].fields :
            LET f == groups[g].fields[k]
                o == out[FieldsBefore(groups, g) + k]
            IN /\ o.name = f.name
               /\ f.fieldType \in RecognisedTypes => o.type = TypeOfRecognised(f.fieldType)
               /\ f.fieldType \notin RecognisedTypes =>
                    o.type = IF f.name \in NamesContainingEmail THEN "email" ELSE "text"

\* C1 witness: a translated form with an unrecognised fieldType on a name that
\* contains "EMail" in upper case, and a recognised fieldType on such a name
C1_Witness ==
  /\ translated # None
  /\ \E g \in DOMAIN hubspotForm[1].fieldGroups :
       \E k \in DOMAIN hubspotForm[1].fieldGroups[g].fields :
          LET f == hubspotForm[1].fieldGroups[g].fields[k] IN
          /\ f.fieldType = "phonenumber"
          /\ f.name = NameUpperEmail
          /\ translated[1].fields[FieldsBefore(hubspotForm[1].fieldGroups, g) + k].type = "email"
  /\ \E i \in DOMAIN translated[1].fields :
       /\ translated[1].fields[i].name = NameEmail
       /\ translated[1].fields[i].type = "number"

\* C2: the payload holds exactly the configured fields whose value is not
\* undefined; a multiselect field's entry is an array (a bare value wrapped
\* into a one-element array) tagged "multiple_checkboxes"; any other field's
\* entry is the value unchanged, tagged with the field's declared type.
C2_PayloadShape ==
  relayPayload # None =>
    LET fs == relayConfig[1].fields
        vals == relayValues[1]
        p == relayPayload[1]
        present == {n \in FieldNames(relayConfig[1]) : vals[n] # Undefined}
    IN /\ DOMAIN p.fields = present
       /\ DOMAIN p.fieldTypes = present
       /\ \A i \in DOMAIN fs :
            LET n == fs[i].name IN
            n \in present =>
              IF fs[i].type = "multiselect"
              THEN /\ IsArr(p.fields[n])
                   /\ IsArr(vals[n]) => p.fields[n] = vals[n]
                   /\ ~IsArr(vals[n]) => Len(p.fields[n][2]) = 1
                   /\ IsStr(vals[n]) => p.fields[n][2][1] = vals[n][2]
                   /\ p.fieldTypes[n] = "multiple_checkboxes"
              ELSE /\ p.fields[n] = vals[n]
                   /\ p.fieldTypes[n] = fs[i].type

\* C2 witness: a payload built from a multiselect field holding a bare string,
\* next to a field whose value is undefined
C2_Witness ==
  /\ relayPayload # None
  /\ \E i, j \in DOMAIN relayConfig[1].fields :
       /\ relayConfig[1].fields[i].type = "multiselect"
       /\ relayValues[1][relayConfig[1].fields[i].name] = Str(TextWord)
       /\ relayPayload[1].fields[relayConfig[1].fields[i].name] = Arr(<<TextWord>>)
       /\ relayValues[1][relayConfig[1].fields[j].name] = Undefined
       /\ relayConfig[1].fields[j].name \notin DOMAIN relayPayload[1].fields

\* C7 (as claimed): for every field that is not required, of every internal
\* type, the validator is built without error and accepts an absent value and
\* an empty value.
C7_OptionalAcceptsAbsentAndEmpty ==
  (/\ schemaVerdict # "idle"
   /\ ~schemaField[1].required
   /\ schemaInput[1] \in {Undefined, Str(TextEmpty)})
  => schemaVerdict = "accepted"

\* C8 (as claimed): a multiselect field's validator accepts every list of
\* strings, the empty list included, required or not.
C8_MultiselectAcceptsAnyList ==
  (/\ schemaVerdict # "idle"
   /\ schemaField[1].type = "multiselect"
   /\ IsArr(schemaInput[1]))
  => schemaVerdict = "accepted"

\* C8 (amended): a multiselect field's validator is always built; it accepts
\* every list of strings when the field is not required and exactly the
\* non-empty lists when it is required; for a field named website the list
\* must moreover be non-empty and start with a URL.
C8_MultiselectRequiredNeedsNonEmpty ==
  (/\ schemaVerdict # "idle"
   /\ schemaField[1].type = "multiselect"
   /\ IsArr(schemaInput[1]))
  => LET list == schemaInput[1][2] IN
     /\ schemaVerdict # "threw"
     /\ schemaVerdict = "accepted" <=>
          /\ schemaField[1].required => list # <<>>
          /\ schemaField[1].name = WebsiteName => list # <<>> /\ list[1] = TextUrl

\* C8 witness: a required multiselect field rejecting the empty list, and
\* accepting a non-empty one
C8_Witness ==
  /\ schemaField # None
  /\ schemaField[1].type = "multiselect"
  /\ schemaField[1].required
  /\ schemaField[1].name = NameColors
  /\ schemaInput[1] = Arr(<<>>)
  /\ schemaVerdict = "rejected"

\* the positions of the log that hold event kind of attempt n
Positions(kind, n) == {i \in DOMAIN log : log[i] = <<kind, n>>}

\* C3: in every submit attempt onSubmissionData is invoked before
\* submitHubspotForm, and onSubmissionResponse is invoked exactly once, after
\* the call has settled, whether the call returned or threw.
C3_CallbackOrder ==
  \A n \in 1..submitCount :
    /\ Cardinality(Positions("onSubmissionData", n)) = 1
    /\ Cardinality(Positions("submitHubspotForm", n)) = 1
    /\ \A i \in Positions("submitHubspotForm", n) :
          \E j \in Positions("onSubmissionData", n) : j < i
    /\ \A i \in Positions("onSubmissionResponse", n) :
          \E j \in Positions("settled", n) : j < i
    /\ \A i \in Positions("settled", n) :
          \E j \in Positions("submitHubspotForm", n) : j < i
    /\ Cardinality(Positions("onSubmissionResponse", n)) =
         Cardinality(Positions("settled", n))
    /\ Cardinality(Positions("settled", n)) =
         IF pending # None /\ pending[1].n = n THEN 0 ELSE 1

\* C3 witness: an attempt whose call threw, the host notified once, after a
\* first attempt whose call returned
C3_Witness ==
  /\ submitCount = 2
  /\ pending = None
  /\ lastSubmit[1].outcome.kind = "throw"
  /\ log[4] = <<"onSubmissionResponse", 1>>
  /\ log[Len(log)] = <<"onSubmissionResponse", 2>>

FetchSettledMounted == lastFetch' # lastFetch /\ lastFetch'[1].mounted

FetchGaveData(outcome) ==
  outcome.kind = "return" /\ outcome.success /\ outcome.data # None

\* the message a failed fetch carries, None when it carries none
FetchMessage(outcome) ==
  IF outcome.error = None \/ outcome.error[1] = "" THEN None ELSE outcome.error

\* C4 (as claimed): a fetch that throws or returns an unsuccessful result
\* leaves loading for the error state, which exposes the collaborator's
\* message; the error state is terminal: no later event clears the message or
\* shows the form, and no fetch is issued but for a changed form identifier.
C4_FetchFailureIsTerminal ==
  [][/\ (FetchSettledMounted /\ ~FetchGaveData(lastFetch'[1].outcome)) =>
          /\ ~loading'
          /\ View' = "error"
          /\ FetchMessage(lastFetch'[1].outcome) # None /\ lastFetch'[1].outcome.kind = "return"
               => error' = FetchMessage(lastFetch'[1].outcome)
          /\ lastFetch'[1].outcome.isError /\ FetchMessage(lastFetch'[1].outcome) # None
               => error' = FetchMessage(lastFetch'[1].outcome)
     /\ View = "error" => View' \in {"error", "crashed"}
     /\ View = "error" => Truthy(error')
     /\ fetchCount' # fetchCount => formId' # formId]_vars

\* a submit settled, and nothing was submitted since
SubmitJustSettled ==
  /\ lastSubmit # None
  /\ lastSubmit[1].mounted
  /\ lastSubmit[1].n = submitCount
  /\ pending = None

\* C5 (as claimed): when submitHubspotForm throws an error that carries no
\* message, the banner text is "Failed to submit form" and the host gets
\* {success: false, error: "Failed to submit form"}.
C5_ThrowWithoutMessageFallsBack ==
  (/\ SubmitJustSettled
   /\ lastSubmit[1].outcome.kind = "throw"
   /\ lastSubmit[1].outcome.error \in {None, Some("")})
  => /\ submitError = Some("Failed to submit form")
     /\ submissionResponse = Some(Response(FALSE, Some("Failed to submit form")))

\* the events the step appends to the log
NewEvents == {log'[i] : i \in (Len(log) + 1)..Len(log')}

\* C6: onSubmissionData and submitHubspotForm are invoked only from a state
\* that shows the form and in which every field value satisfies the validator
\* built from the current configuration; a rejected attempt invokes neither.
C6_InvalidNeverSubmitted ==
  [][(\E e \in NewEvents : e[1] \in {"onSubmissionData", "submitHubspotForm"}) =>
        /\ View = "form"
        /\ ~SchemaThrows(formConfig[1])
        /\ \A n \in FieldNames(formConfig[1]) :
              IsOk(ParseSchema(generateZodSchema(formConfig[1])[n], ValueAt(values, n)))]_vars

\* C6 witness: an attempt was rejected (the resolver reported errors) and
\* neither the host nor the collaborator has been called
C6_Witness ==
  /\ View = "form"
  /\ errors # {}
  /\ log = <<>>
  /\ submitCount = 0

\* the initial empty values of a configuration: one entry per field, the
\* empty list for a multiselect field and the empty string for any other
IsInitialEmpty(vals, config) ==
  /\ DOMAIN vals = FieldNames(config)
  /\ \A i \in DOMAIN config.fields :
        vals[config.fields[i].name] =
          IF config.fields[i].type = "multiselect" THEN Arr(<<>>) ELSE Str(<<>>)

\* C9 (as claimed): when a fetch returns a successful result with data the
\* controller stores the translated configuration and sets the values to the
\* initial empty ones; the fetch that ends loading leaves the controller in
\* the ready state, showing the form, with no error, no banner and
\* isSubmitting false.
C9_FetchSuccessReady ==
  [][(FetchSettledMounted /\ FetchGaveData(lastFetch'[1].outcome)) =>
        /\ formConfig' = Some(convertHubspotFormToConfig(lastFetch'[1].outcome.data[1]))
        /\ IsInitialEmpty(values', formConfig'[1])
        /\ ~loading'
        /\ loading => /\ View' = "form"
                      /\ error' = None
                      /\ submitError' = None
                      /\ ~submitSuccess'
                      /\ ~isSubmitting']_vars

SubmitSettledMounted == lastSubmit' # lastSubmit /\ lastSubmit'[1].mounted

OptionValues(field) == {field.options[o].value : o \in DOMAIN field.options}

\* C11: whenever a configuration is stored, the value of every multiselect
\* field of it is present and is an array whose elements are strings (option
\* values of the field), never a bare string and never absent, whatever
\* fetches, toggles, edits, submits and resets came before.
C11_MultiselectHoldsArray ==
  formConfig # None =>
    \A i \in DOMAIN formConfig[1].fields :
      formConfig[1].fields[i].type = "multiselect" =>
        LET n == formConfig[1].fields[i].name IN
        /\ n \in DOMAIN values
        /\ IsArr(values[n])
        /\ Range(values[n][2]) \subseteq OptionValues(formConfig[1].fields[i])

\* C11 witness: a form with a multiselect field is shown after a submit has
\* returned and reset the values, and two options have been toggled on since
C11_Witness ==
  /\ View = "form"
  /\ lastSubmit # None
  /\ lastSubmit[1].outcome.kind = "return"
  /\ lastSubmit[1].outcome.success
  /\ NameColors \in DOMAIN values
  /\ values[NameColors] = Arr(<<OptionB.value, OptionA.value>>)

\* the response of the most recently requested fetch has arrived, with data,
\* in this step or in the settlement just before it
NewestFetchGaveData ==
  \/ /\ lastFetch'[1].n = fetchCount
     /\ FetchGaveData(lastFetch'[1].outcome)
  \/ /\ lastFetch # None
     /\ lastFetch[1].n = fetchCount
     /\ lastFetch[1].mounted
     /\ FetchGaveData(lastFetch[1].outcome)

\* C12 (as claimed): when the form identifier changed while an earlier fetch
\* was in flight, then in whichever order the responses arrive, once all have
\* settled the stored configuration and the keys of the values are those of
\* the most recently requested form identifier: a late response for an older
\* identifier does not overwrite the newer one.
C12_LatestRequestWins ==
  [][(/\ FetchSettledMounted
      /\ inflight' = {}
      /\ fetchCount >= 2
      /\ NewestFetchGaveData) =>
        /\ formConfig' = Some(convertHubspotFormToConfig(FormOf(formId')))
        /\ DOMAIN values' = FieldNames(formConfig'[1])]_vars

====
